---- MODULE Spec2Model ----
(***************************************************************************)
(* Bitbucket manifest discovery: the entity provider that reconciles a     *)
(* remote manifest against the bb_manifest_versions table and hands the    *)
(* changed repositories to the catalog as a delta mutation.                *)
(*                                                                         *)
(*   provider.ts      BitbucketManifestDiscoverEntityProvider              *)
(*   versionStore.ts  VersionStore (get / upsertSeen / markRegistered)     *)
(*   migrations       bb_manifest_versions                                 *)
(***************************************************************************)
EXTENDS Naturals, Sequences, FiniteSets, TLC

\* ------------------------------------------------------------------ bounds

\* Longest manifest (spec.repositories) a fetch returns.
MaxManifestLen == 2

\* Last value of the database clock; a pass starts only while the clock can
\* still advance, so this also caps the number of passes.
MaxTime == 2

\* ------------------------------------------------------------------ values

\* last_registered_at: null (versionStore.ts, upsertSeen's insert).
NULL == 0

\* (workspace, repoSlug) pairs the manifests are drawn from.
Repos == {<<"w", "r">>, <<"w", "s">>}

\* Version strings: a version and its whitespace variant. The code compares
\* versions as opaque strings, so any other pair of different strings (a
\* higher version, a downgrade) behaves as this pair does.
Versions == {"1.0.0", "1.0.0 "}

\* interface BitbucketManifestRepo
Descriptors ==
  {[id |-> "id-" \o r[2], workspace |-> r[1], repoSlug |-> r[2], version |-> v] :
     r \in Repos, v \in Versions}

\* spec.repositories of a manifest that passed fetchManifest's validation.
Manifests == UNION {[1..n -> Descriptors] : n \in 0..MaxManifestLen}

\* ProviderConfig, with create()'s defaults.
ManifestUrl == "https://bitbucket.org/org/manifests/raw/main/manifest.yaml"
DefaultBranch == "main"
DefaultCatalogInfoPath == "catalog-info.yaml"

\* const repoKey = `${repo.workspace}/${repo.repoSlug}`
RepoKey(repo) == repo.workspace \o "/" \o repo.repoSlug

RepoKeys == {RepoKey(d) : d \in Descriptors}

\* Run slots of the scheduled task; the scheduler hands a run to the lowest
\* free slot.
Passes == {1, 2}

\* What fetchManifest can end with.
FetchOutcomes == {"ok", "noIntegration", "unreachable", "notOk", "badShape"}

VARIABLES
  table,                \* rows of bb_manifest_versions
  now,                  \* the database clock, knex.fn.now()
  phase,                \* start-up: "constructed", "connected", "migrated", "scheduled";
                        \* "failed" when connect rejected
  schema,               \* tables and indexes the database holds
  migrations,           \* rows of knex_migrations_bitbucket_manifest
  sink,                 \* what the catalog connection has been handed
  pc,                   \* per run: where discover() stands
  manifest,             \* per run: manifest.spec.repositories; kept by a run that
                        \* completed until the slot's next fetch (history)
  idx,                  \* per run: position of the for..of loop
  stored,               \* per run: what versionStore.get returned
  locationsToRegister,  \* per run: discover's local list
  log,                  \* per run: processRepository's log lines, one per repository
  passTable,            \* per run: table when the run started (history)
  rerun,                \* per run: previous run completed on this same manifest (history)
  foreignWrites,        \* per run: keys whose rows other runs wrote since it started (history)
  outcome,              \* per slot: how the last finished run ended
  response,             \* per slot: what the last fetch of the manifest met
  unpublished,          \* <<repoKey, version>> whose only sink call failed (history)
  handed                \* <<repoKey, version>> handed to the sink, until the key
                        \* is met with another version (history)

vars == <<table, now, phase, schema, migrations, sink, pc, manifest, idx, stored,
          locationsToRegister, log, passTable, rerun, foreignWrites,
          outcome, response, unpublished, handed>>

passLocals == <<manifest, idx, stored, locationsToRegister, log, passTable, rerun,
                foreignWrites>>

\* ------------------------------------------------------------ VersionStore

\* A row of bb_manifest_versions (migration: exports.up).
Row(key, version, seen, registered) ==
  [repo_key |-> key, manifest_version |-> version,
   last_seen_at |-> seen, last_registered_at |-> registered]

RowsOf(t, key) == {r \in t : r.repo_key = key}

\* get's null.
NoRecord ==
  [found |-> FALSE, repoKey |-> "", manifestVersion |-> "",
   lastSeenAt |-> NULL, lastRegisteredAt |-> NULL]

\* VersionStore.get: .where({repo_key}).first(), mapped to a VersionRecord.
Get(t, key) ==
  IF RowsOf(t, key) = {} THEN NoRecord
  ELSE LET row == CHOOSE r \in RowsOf(t, key) : TRUE
       IN  [found |-> TRUE, repoKey |-> row.repo_key,
            manifestVersion |-> row.manifest_version,
            lastSeenAt |-> row.last_seen_at,
            lastRegisteredAt |-> row.last_registered_at]

\* upsertSeen whose merge() names no columns: a conflicting row takes every
\* inserted value, last_registered_at: null included.
UpsertSeenMergingAll(t, key, version, time) ==
  (t \ RowsOf(t, key)) \cup {Row(key, version, time, NULL)}

\* upsertSeen as a plain insert, without onConflict('repo_key').merge(..).
UpsertSeenPlainInsert(t, key, version, time) ==
  t \cup {Row(key, version, time, NULL)}

\* upsertSeen whose merge leaves last_seen_at out.
UpsertSeenKeepingSeen(t, key, version, time) ==
  IF RowsOf(t, key) = {} THEN t \cup {Row(key, version, time, NULL)}
  ELSE (t \ RowsOf(t, key)) \cup
       {Row(key, version, r.last_seen_at, r.last_registered_at) : r \in RowsOf(t, key)}

\* upsertSeen whose merge leaves manifest_version out.
UpsertSeenKeepingVersion(t, key, version, time) ==
  IF RowsOf(t, key) = {} THEN t \cup {Row(key, version, time, NULL)}
  ELSE (t \ RowsOf(t, key)) \cup
       {Row(key, r.manifest_version, time, r.last_registered_at) : r \in RowsOf(t, key)}

\* VersionStore.upsertSeen: insert .. onConflict('repo_key').merge(..), one
\* statement. A new row gets last_registered_at null; a conflicting row keeps
\* its last_registered_at.
UpsertSeen(t, key, version, time) ==
  IF RowsOf(t, key) = {} THEN t \cup {Row(key, version, time, NULL)}
  ELSE (t \ RowsOf(t, key)) \cup
       {Row(key, version, time, r.last_registered_at) : r \in RowsOf(t, key)}

\* markRegistered without its where clause: every row is stamped.
MarkRegisteredEveryRow(t, key, time) ==
  {Row(r.repo_key, r.manifest_version, r.last_seen_at, time) : r \in t}

\* VersionStore.markRegistered: update .. where repo_key = key.
MarkRegistered(t, key, time) ==
  (t \ RowsOf(t, key)) \cup
  {Row(key, r.manifest_version, r.last_seen_at, time) : r \in RowsOf(t, key)}

\* -------------------------------------------------------------- provider

\* createLocationEntity that builds the repo-key annotation from the entry's
\* id instead of its repoSlug.
CreateLocationEntityFromId(repo) ==
  [name |-> "bitbucket-manifest-" \o repo.workspace \o "-" \o repo.repoSlug,
   managedBy |-> "url:" \o ManifestUrl,
   repoKey |-> repo.workspace \o "/" \o repo.id,
   manifestVersion |-> repo.version,
   target |-> "https://bitbucket.org/" \o repo.workspace \o "/" \o repo.repoSlug
              \o "/raw/" \o DefaultBranch \o "/" \o DefaultCatalogInfoPath]

\* createLocationEntity
CreateLocationEntity(repo) ==
  [name |-> "bitbucket-manifest-" \o repo.workspace \o "-" \o repo.repoSlug,
   managedBy |-> "url:" \o ManifestUrl,
   repoKey |-> repo.workspace \o "/" \o repo.repoSlug,
   manifestVersion |-> repo.version,
   target |-> "https://bitbucket.org/" \o repo.workspace \o "/" \o repo.repoSlug
              \o "/raw/" \o DefaultBranch \o "/" \o DefaultCatalogInfoPath]

\* The version with trailing whitespace removed.
Trimmed(version) == IF version = "1.0.0 " THEN "1.0.0" ELSE version

\* A version check that skips only records that were never marked registered.
VersionUnchangedUnlessRegistered(rec, repo) ==
  rec.found /\ rec.manifestVersion = repo.version /\ rec.lastRegisteredAt = NULL

\* A version check that normalises whitespace before comparing.
VersionUnchangedTrimmed(rec, repo) ==
  rec.found /\ Trimmed(rec.manifestVersion) = Trimmed(repo.version)

\* stored && stored.manifestVersion === repo.version
VersionUnchanged(rec, repo) ==
  rec.found /\ rec.manifestVersion = repo.version

Init ==
  /\ table = {}
  /\ now = 0
  /\ phase = "constructed"
  /\ schema = {}
  /\ migrations = {}
  /\ sink = [added |-> {}, removed |-> {}]
  /\ pc = [p \in Passes |-> "idle"]
  /\ manifest = [p \in Passes |-> <<>>]
  /\ idx = [p \in Passes |-> 0]
  /\ stored = [p \in Passes |-> NoRecord]
  /\ locationsToRegister = [p \in Passes |-> <<>>]
  /\ log = [p \in Passes |-> <<>>]
  /\ passTable = [p \in Passes |-> {}]
  /\ rerun = [p \in Passes |-> FALSE]
  /\ foreignWrites = [p \in Passes |-> {}]
  /\ outcome = [p \in Passes |-> "none"]
  /\ response = [p \in Passes |-> "none"]
  /\ unpublished = {}
  /\ handed = {}

\* ------------------------------------------------------------ start-up

\* The migrations directory: the one migration that creates the table.
MigrationDirectory == {"bb_manifest_versions"}

\* What the migration creates: the table and its last_seen_at index.
SchemaObjects == {"bb_manifest_versions", "idx_bb_manifest_versions_last_seen"}

\* exports.up: knex.schema.createTable (not createTableIfNotExists) throws
\* when the table is there already.
Up(sch) ==
  IF "bb_manifest_versions" \in sch
    THEN [ok |-> FALSE, schema |-> sch]
    ELSE [ok |-> TRUE, schema |-> sch \cup SchemaObjects]

\* The backend process starts anew (module init builds a new provider); the
\* database keeps its tables. A process that goes down with a run in flight
\* abandons that run first.
Restart ==
  /\ phase # "constructed"
  /\ \A p \in Passes : pc[p] = "idle"
  /\ phase' = "constructed"
  /\ UNCHANGED <<table, now, schema, migrations, sink, pc, outcome, response,
                 unpublished, handed, passLocals>>

\* connect: this.connection = connection
Connect ==
  /\ phase = "constructed"
  /\ phase' = "connected"
  /\ UNCHANGED <<table, now, schema, migrations, sink, pc, outcome, response, unpublished, handed, passLocals>>

\* runMigrations that does not consult knex_migrations_bitbucket_manifest:
\* the migration's up runs on every start.
RunMigrationsUntracked ==
  /\ phase = "connected"
  /\ LET res == Up(schema)
     IN  IF res.ok
           THEN /\ phase' = "migrated"
                /\ schema' = res.schema
                /\ migrations' = migrations \cup MigrationDirectory
           ELSE /\ phase' = "failed"
                /\ UNCHANGED <<schema, migrations>>
  /\ UNCHANGED <<table, now, sink, pc, outcome, response, unpublished, handed, passLocals>>

\* connect: await this.versionStore.runMigrations(). db.migrate.latest runs
\* the up of every migration of the directory that has no row in
\* knex_migrations_bitbucket_manifest and records it; when up throws, so does
\* connect, and nothing is scheduled.
RunMigrations ==
  /\ phase = "connected"
  /\ LET pending == MigrationDirectory \ migrations
         res == Up(schema)
     IN  IF pending = {}
           THEN /\ phase' = "migrated"
                /\ UNCHANGED <<schema, migrations>>
           ELSE IF res.ok
                  THEN /\ phase' = "migrated"
                       /\ schema' = res.schema
                       /\ migrations' = migrations \cup pending
                  ELSE /\ phase' = "failed"
                       /\ UNCHANGED <<schema, migrations>>
  /\ UNCHANGED <<table, now, sink, pc, outcome, response, unpublished, handed, passLocals>>

\* connect: await this.scheduler.scheduleTask({.. fn: () => this.discover()})
ScheduleTask ==
  /\ phase = "migrated"
  /\ phase' = "scheduled"
  /\ UNCHANGED <<table, now, schema, migrations, sink, pc, outcome, response, unpublished, handed, passLocals>>

\* --------------------------------------------------------------- a pass

\* The run's locals go away when discover() returns or throws; the slot keeps
\* how the run ended.
Finish(p, how) ==
  /\ pc' = [pc EXCEPT ![p] = "idle"]
  /\ outcome' = [outcome EXCEPT ![p] = how]
  /\ idx' = [idx EXCEPT ![p] = 0]
  /\ stored' = [stored EXCEPT ![p] = NoRecord]
  /\ locationsToRegister' = [locationsToRegister EXCEPT ![p] = <<>>]
  /\ log' = [log EXCEPT ![p] = <<>>]
  /\ passTable' = [passTable EXCEPT ![p] = {}]
  /\ rerun' = [rerun EXCEPT ![p] = FALSE]
  /\ foreignWrites' = [foreignWrites EXCEPT ![p] = {}]

\* The for..of loop moves to the next repository, or leaves the loop.
Advance(p) ==
  /\ idx' = [idx EXCEPT ![p] = idx[p] + 1]
  /\ pc' = [pc EXCEPT ![p] =
              IF idx[p] + 1 > Len(manifest[p]) THEN "apply" ELSE "get"]

\* The repository the loop is at.
Repo(p) == manifest[p][idx[p]]

\* discover without its connection check.
DiscoverUnguarded(p) ==
  /\ pc[p] = "idle"
  /\ now < MaxTime
  /\ now' = now + 1
  /\ response' = [response EXCEPT ![p] = "none"]
  /\ pc' = [pc EXCEPT ![p] = "fetch"]
  /\ passTable' = [passTable EXCEPT ![p] = table]
  /\ UNCHANGED <<manifest, idx, stored, locationsToRegister, log,
                 rerun, foreignWrites, outcome>>
  /\ UNCHANGED <<table, phase, schema, migrations, sink, unpublished, handed>>

\* The scheduled fn calls discover(); a run without a connection throws
\* before anything else. The clock has moved on since the previous run.
Discover(p) ==
  /\ pc[p] = "idle"
  /\ now < MaxTime
  /\ now' = now + 1
  /\ response' = [response EXCEPT ![p] = "none"]
  /\ IF phase = "constructed"
       THEN /\ Finish(p, "notConnected")
            /\ UNCHANGED manifest
       ELSE /\ pc' = [pc EXCEPT ![p] = "fetch"]
            /\ passTable' = [passTable EXCEPT ![p] = table]
            /\ UNCHANGED <<manifest, idx, stored, locationsToRegister, log,
                           rerun, foreignWrites, outcome>>
  /\ UNCHANGED <<table, phase, schema, migrations, sink, unpublished, handed>>

\* The scheduler runs the task once at a time: a run starts in the lowest
\* slot, and only when no run is in flight.
Trigger(p) ==
  /\ phase = "scheduled"
  /\ \A q \in Passes : pc[q] = "idle" /\ p <= q
  /\ Discover(p)

\* discover() called on a provider that connect has not reached yet: nothing
\* is scheduled before connect, so such a run comes from a direct call.
DiscoverBeforeConnect(p) ==
  /\ phase = "constructed"
  /\ \A q \in Passes : pc[q] = "idle" /\ p <= q
  /\ Discover(p)

\* fetchManifest that takes content without spec.repositories for an empty
\* list instead of throwing.
FetchManifestLenient(p) ==
  /\ pc[p] = "fetch"
  /\ \E res \in FetchOutcomes :
       /\ response' = [response EXCEPT ![p] = res]
       /\ IF res \in {"ok", "badShape"}
            THEN \E m \in IF res = "ok" THEN Manifests ELSE {<<>>} :
                   /\ manifest' = [manifest EXCEPT ![p] = m]
                   /\ rerun' = [rerun EXCEPT ![p] =
                                  outcome[p] = "completed" /\ manifest[p] = m]
                   /\ idx' = [idx EXCEPT ![p] = 1]
                   /\ pc' = [pc EXCEPT ![p] = IF Len(m) = 0 THEN "apply" ELSE "get"]
                   /\ outcome' = [outcome EXCEPT ![p] = "running"]
                   /\ UNCHANGED <<stored, locationsToRegister, log, passTable,
                                  foreignWrites>>
            ELSE /\ Finish(p, "fetchError")
                 /\ manifest' = [manifest EXCEPT ![p] = <<>>]
  /\ UNCHANGED <<table, now, phase, schema, migrations, sink, unpublished, handed>>

\* fetchManifest: throws without an integration, when the request fails, on a
\* non-ok response and on content without spec.repositories; discover's catch
\* rethrows. Otherwise the loop starts on the repositories it returned.
FetchManifest(p) ==
  /\ pc[p] = "fetch"
  /\ \E res \in FetchOutcomes :
       /\ response' = [response EXCEPT ![p] = res]
       /\ IF res = "ok"
            THEN \E m \in Manifests :
                   /\ manifest' = [manifest EXCEPT ![p] = m]
                   /\ rerun' = [rerun EXCEPT ![p] =
                                  outcome[p] = "completed" /\ manifest[p] = m]
                   /\ idx' = [idx EXCEPT ![p] = 1]
                   /\ pc' = [pc EXCEPT ![p] = IF Len(m) = 0 THEN "apply" ELSE "get"]
                   /\ outcome' = [outcome EXCEPT ![p] = "running"]
                   /\ UNCHANGED <<stored, locationsToRegister, log, passTable,
                                  foreignWrites>>
            ELSE /\ Finish(p, "fetchError")
                 /\ manifest' = [manifest EXCEPT ![p] = <<>>]
  /\ UNCHANGED <<table, now, phase, schema, migrations, sink, unpublished, handed>>

\* this.logger.info(`.. version changed: ${stored?.manifestVersion || 'new'} -> ..`)
LogChanged(rec, repo) ==
  [kind |-> "changed", repoKey |-> RepoKey(repo),
   from |-> IF rec.found /\ rec.manifestVersion # "" THEN rec.manifestVersion ELSE "new",
   to |-> repo.version]

\* this.logger.debug(`.. version unchanged (${repo.version}), skipping registration`)
LogUnchanged(rec, repo) ==
  [kind |-> "unchanged", repoKey |-> RepoKey(repo),
   from |-> repo.version, to |-> repo.version]

\* processRepository that calls markRegistered before upsertSeen.
CheckVersionMarkingFirst(p) ==
  /\ pc[p] = "get"
  /\ LET rec == Get(table, RepoKey(Repo(p)))
     IN  /\ stored' = [stored EXCEPT ![p] = rec]
         /\ IF VersionUnchanged(rec, Repo(p))
              THEN /\ log' = [log EXCEPT ![p] = Append(@, LogUnchanged(rec, Repo(p)))]
                   /\ Advance(p)
              ELSE /\ log' = [log EXCEPT ![p] = Append(@, LogChanged(rec, Repo(p)))]
                   /\ pc' = [pc EXCEPT ![p] = "mark"]
                   /\ UNCHANGED idx
  /\ UNCHANGED <<table, now, phase, schema, migrations, sink, manifest, locationsToRegister,
                 passTable, rerun, foreignWrites, outcome, response,
                 unpublished>>
  /\ handed' = {u \in handed : u[1] = RepoKey(Repo(p)) => u[2] = Repo(p).version}

\* processRepository that refreshes last_seen_at of an unchanged repository.
CheckVersionTouching(p) ==
  /\ pc[p] = "get"
  /\ LET rec == Get(table, RepoKey(Repo(p)))
     IN  /\ stored' = [stored EXCEPT ![p] = rec]
         /\ IF VersionUnchanged(rec, Repo(p))
              THEN /\ log' = [log EXCEPT ![p] = Append(@, LogUnchanged(rec, Repo(p)))]
                   /\ table' = UpsertSeen(table, RepoKey(Repo(p)), Repo(p).version, now)
                   /\ Advance(p)
              ELSE /\ log' = [log EXCEPT ![p] = Append(@, LogChanged(rec, Repo(p)))]
                   /\ pc' = [pc EXCEPT ![p] = "upsert"]
                   /\ UNCHANGED <<idx, table>>
  /\ UNCHANGED <<now, phase, schema, migrations, sink, manifest, locationsToRegister,
                 passTable, rerun, foreignWrites, outcome, response,
                 unpublished>>
  /\ handed' = {u \in handed : u[1] = RepoKey(Repo(p)) => u[2] = Repo(p).version}

\* processRepository up to the version check: get, then either return
\* shouldRegister: false (discover pushes nothing) or go on to the writes.
CheckVersion(p) ==
  /\ pc[p] = "get"
  /\ LET rec == Get(table, RepoKey(Repo(p)))
     IN  /\ stored' = [stored EXCEPT ![p] = rec]
         /\ IF VersionUnchanged(rec, Repo(p))
              THEN /\ log' = [log EXCEPT ![p] = Append(@, LogUnchanged(rec, Repo(p)))]
                   /\ Advance(p)
              ELSE /\ log' = [log EXCEPT ![p] = Append(@, LogChanged(rec, Repo(p)))]
                   /\ pc' = [pc EXCEPT ![p] = "upsert"]
                   /\ UNCHANGED idx
  /\ UNCHANGED <<table, now, phase, schema, migrations, sink, manifest, locationsToRegister,
                 passTable, rerun, foreignWrites, outcome, response,
                 unpublished>>
  /\ handed' = {u \in handed : u[1] = RepoKey(Repo(p)) => u[2] = Repo(p).version}

\* A write of run p to the row of a key is foreign to every other run in
\* flight.
NoteWrite(p, key) ==
  foreignWrites' =
    [q \in Passes |->
       IF q # p /\ pc[q] # "idle" THEN foreignWrites[q] \cup {key}
       ELSE foreignWrites[q]]

\* await this.versionStore.upsertSeen(repoKey, repo.version)
WriteSeen(p) ==
  /\ pc[p] = "upsert"
  /\ table' = UpsertSeen(table, RepoKey(Repo(p)), Repo(p).version, now)
  /\ pc' = [pc EXCEPT ![p] = "mark"]
  /\ unpublished' =
       {u \in unpublished : u[1] = RepoKey(Repo(p)) => u[2] = Repo(p).version}
  /\ NoteWrite(p, RepoKey(Repo(p)))
  /\ UNCHANGED <<now, phase, schema, migrations, sink, outcome, response, manifest, idx, stored,
                 locationsToRegister, log, passTable, rerun, handed>>

\* discover that hands each location to the catalog as soon as its row is
\* marked, inside the loop.
WriteRegisteredApplying(p) ==
  /\ pc[p] = "mark"
  /\ table' = MarkRegistered(table, RepoKey(Repo(p)), now)
  /\ locationsToRegister' =
       [locationsToRegister EXCEPT ![p] = Append(@, CreateLocationEntity(Repo(p)))]
  /\ sink' = [sink EXCEPT !.added = @ \cup {CreateLocationEntity(Repo(p))}]
  /\ Advance(p)
  /\ NoteWrite(p, RepoKey(Repo(p)))
  /\ UNCHANGED <<now, phase, schema, migrations, manifest, stored, log, passTable, rerun,
                 outcome, response, unpublished, handed>>

\* discover that puts each new location at the front of its list (unshift in
\* place of push).
WriteRegisteredPrepending(p) ==
  /\ pc[p] = "mark"
  /\ table' = MarkRegistered(table, RepoKey(Repo(p)), now)
  /\ locationsToRegister' =
       [locationsToRegister EXCEPT ![p] = <<CreateLocationEntity(Repo(p))>> \o @]
  /\ Advance(p)
  /\ NoteWrite(p, RepoKey(Repo(p)))
  /\ UNCHANGED <<now, phase, schema, migrations, sink, manifest, stored, log, passTable, rerun,
                 outcome, response, unpublished, handed>>

\* await this.versionStore.markRegistered(repoKey), then processRepository
\* returns shouldRegister: true and discover pushes the location.
WriteRegistered(p) ==
  /\ pc[p] = "mark"
  /\ table' = MarkRegistered(table, RepoKey(Repo(p)), now)
  /\ locationsToRegister' =
       [locationsToRegister EXCEPT ![p] = Append(@, CreateLocationEntity(Repo(p)))]
  /\ Advance(p)
  /\ NoteWrite(p, RepoKey(Repo(p)))
  /\ UNCHANGED <<now, phase, schema, migrations, sink, manifest, stored, log, passTable, rerun,
                 outcome, response, unpublished, handed>>

\* A VersionStore call rejects (storage error): processRepository throws, the
\* loop is left, discover's catch logs and rethrows.
StoreFails(p) ==
  /\ pc[p] \in {"get", "upsert", "mark"}
  /\ Finish(p, "storeError")
  /\ manifest' = [manifest EXCEPT ![p] = <<>>]
  /\ UNCHANGED <<table, now, phase, schema, migrations, sink, response, unpublished, handed>>

\* <<repoKey, version>> of the locations of a list.
Pairs(locations) ==
  {<<locations[i].repoKey, locations[i].manifestVersion>> : i \in DOMAIN locations}

\* The pairs a run hands to applyMutation and ends on: those whose version is
\* the one its manifest lists last for the key.
HandedOver(p) ==
  {u \in Pairs(locationsToRegister[p]) :
     \A i \in DOMAIN manifest[p] :
       RepoKey(manifest[p][i]) = u[1] =>
         \E j \in i..Len(manifest[p]) :
           RepoKey(manifest[p][j]) = u[1] /\ manifest[p][j].version = u[2]}

\* A mutation of type 'full' in place of the delta.
MutationFull(locations) ==
  [type |-> "full",
   added |-> {locations[i] : i \in DOMAIN locations},
   removed |-> {}]

\* The delta mutation discover builds.
Mutation(locations) ==
  [type |-> "delta",
   added |-> {locations[i] : i \in DOMAIN locations},
   removed |-> {}]

\* connection.applyMutation: a delta adds and removes what it lists; a full
\* mutation replaces everything the provider had handed over before.
Apply(s, mutation) ==
  IF mutation.type = "delta"
    THEN [added |-> s.added \cup mutation.added,
          removed |-> s.removed \cup mutation.removed]
    ELSE [added |-> mutation.added,
          removed |-> s.removed \cup (s.added \ mutation.added)]

\* After the loop: applyMutation when there is something to register.
ApplyMutation(p) ==
  /\ pc[p] = "apply"
  /\ sink' = IF locationsToRegister[p] = <<>> THEN sink
             ELSE Apply(sink, Mutation(locationsToRegister[p]))
  /\ handed' = handed \cup HandedOver(p)
  /\ Finish(p, "completed")
  /\ UNCHANGED <<table, now, phase, schema, migrations, manifest, response, unpublished>>

\* A failing applyMutation that puts the table back to what the run started on.
ApplyMutationFailsRollingBack(p) ==
  /\ pc[p] = "apply"
  /\ locationsToRegister[p] # <<>>
  /\ table' = passTable[p]
  /\ unpublished' = unpublished \cup
       {u \in Pairs(locationsToRegister[p]) :
          Get(table, u[1]).found /\ Get(table, u[1]).manifestVersion = u[2]}
  /\ handed' = handed \cup HandedOver(p)
  /\ Finish(p, "sinkError")
  /\ manifest' = [manifest EXCEPT ![p] = <<>>]
  /\ UNCHANGED <<now, phase, schema, migrations, sink, response>>

\* applyMutation rejects: discover's catch logs and rethrows; nothing is
\* undone in the table.
ApplyMutationFails(p) ==
  /\ pc[p] = "apply"
  /\ locationsToRegister[p] # <<>>
  /\ unpublished' = unpublished \cup
       {u \in Pairs(locationsToRegister[p]) :
          Get(table, u[1]).found /\ Get(table, u[1]).manifestVersion = u[2]}
  /\ handed' = handed \cup HandedOver(p)
  /\ Finish(p, "sinkError")
  /\ manifest' = [manifest EXCEPT ![p] = <<>>]
  /\ UNCHANGED <<table, now, phase, schema, migrations, sink, response>>

\* An abandoned run whose writes are undone.
AbandonRollingBack(p) ==
  /\ pc[p] # "idle"
  /\ table' = passTable[p]
  /\ Finish(p, "abandoned")
  /\ manifest' = [manifest EXCEPT ![p] = <<>>]
  /\ UNCHANGED <<now, phase, schema, migrations, sink, response, unpublished, handed>>

\* The task's timeout (or the process going down) ends a run wherever it is.
Abandon(p) ==
  /\ pc[p] # "idle"
  /\ Finish(p, "abandoned")
  /\ manifest' = [manifest EXCEPT ![p] = <<>>]
  /\ UNCHANGED <<table, now, phase, schema, migrations, sink, response, unpublished, handed>>

Next ==
  \/ Connect
  \/ RunMigrations
  \/ ScheduleTask
  \/ \E p \in Passes :
       \/ Trigger(p)
       \/ FetchManifest(p)
       \/ CheckVersion(p)
       \/ WriteSeen(p)
       \/ WriteRegistered(p)
       \/ StoreFails(p)
       \/ ApplyMutation(p)
       \/ ApplyMutationFails(p)
       \/ Abandon(p)

Spec == Init /\ [][Next]_vars

\* ------------------------------------------------------ overlapping runs

\* discover() holds no lock and takes no abort signal: when the trigger lets
\* a second invocation in (a timed-out run that is still going, a second
\* backend instance), it starts while the other run is in flight.
Overlapping(p) ==
  /\ phase = "scheduled"
  /\ Discover(p)

\* fetchManifest of a run that may overlap: the manifests served list at most
\* one repository.
FetchShort(p) ==
  /\ FetchManifest(p)
  /\ Len(manifest'[p]) <= 1

\* Two run slots that start independently of each other; a run ends by
\* completing, by a fetch error or by being abandoned.
NextOverlap ==
  \/ Connect
  \/ RunMigrations
  \/ ScheduleTask
  \/ \E p \in Passes :
       \/ Overlapping(p)
       \/ FetchShort(p)
       \/ CheckVersion(p)
       \/ WriteSeen(p)
       \/ WriteRegistered(p)
       \/ ApplyMutation(p)
       \/ Abandon(p)

SpecOverlap == Init /\ [][NextOverlap]_vars

\* ------------------------------------------------------- process restarts

\* The provider over several lives of the backend process, all on the same
\* database: start-up, scheduled runs one at a time, and restarts; a process
\* that goes down during a run abandons it. discover() may also be called on
\* a provider that is not connected yet.
NextRestart ==
  \/ Connect
  \/ RunMigrations
  \/ ScheduleTask
  \/ Restart
  \/ \E p \in Passes :
       \/ Trigger(p)
       \/ DiscoverBeforeConnect(p)
       \/ FetchManifest(p)
       \/ CheckVersion(p)
       \/ WriteSeen(p)
       \/ WriteRegistered(p)
       \/ ApplyMutation(p)
       \/ Abandon(p)

SpecRestart == Init /\ [][NextRestart]_vars

\* ------------------------------------------------- location identities

\* Workspaces and repository slugs with and without a hyphen; Bitbucket
\* allows hyphens in both, and fetchManifest takes any string.
PointerWorkspaces == {"a", "a-b", "w"}
PointerSlugs == {"c", "b-c", "r"}

\* interface BitbucketManifestRepo, over these workspaces and slugs.
PointerDescriptors ==
  {[id |-> "id", workspace |-> w, repoSlug |-> s, version |-> "1.0.0"] :
     w \in PointerWorkspaces, s \in PointerSlugs}

\* A provider holding a manifest of such entries, with no location built yet.
InitPointers ==
  /\ table = {}
  /\ now = 0
  /\ phase = "scheduled"
  /\ schema = SchemaObjects
  /\ migrations = MigrationDirectory
  /\ sink = [added |-> {}, removed |-> {}]
  /\ pc = [p \in Passes |-> "idle"]
  /\ manifest \in
       {[p \in Passes |-> IF p = 1 THEN m ELSE <<>>] :
          m \in UNION {[1..n -> PointerDescriptors] : n \in 0..MaxManifestLen}}
  /\ idx = [p \in Passes |-> 0]
  /\ stored = [p \in Passes |-> NoRecord]
  /\ locationsToRegister = [p \in Passes |-> <<>>]
  /\ log = [p \in Passes |-> <<>>]
  /\ passTable = [p \in Passes |-> {}]
  /\ rerun = [p \in Passes |-> FALSE]
  /\ foreignWrites = [p \in Passes |-> {}]
  /\ outcome = [p \in Passes |-> "none"]
  /\ response = [p \in Passes |-> "none"]
  /\ unpublished = {}
  /\ handed = {}

\* this.createLocationEntity(repo) for the next entry of the manifest.
BuildLocation(p) ==
  /\ Len(locationsToRegister[p]) < Len(manifest[p])
  /\ locationsToRegister' =
       [locationsToRegister EXCEPT ![p] =
          Append(@, CreateLocationEntity(manifest[p][Len(@) + 1]))]
  /\ UNCHANGED <<table, now, phase, schema, migrations, sink, pc, manifest, idx,
                 stored, log, passTable, rerun, foreignWrites, outcome, response,
                 unpublished, handed>>

NextPointers == \E p \in Passes : BuildLocation(p)

\* createLocationEntity applied to the entries of a manifest, one by one.
SpecPointers == InitPointers /\ [][NextPointers]_vars

\* ------------------------------------------------------------- claims

\* The keys of a manifest.
KeysOf(m) == {RepoKey(m[i]) : i \in DOMAIN m}

\* No repoKey is listed with two different versions.
SingleVersioned(m) ==
  \A i, j \in DOMAIN m :
    RepoKey(m[i]) = RepoKey(m[j]) => m[i].version = m[j].version

\* No repoKey is listed twice.
DistinctKeys(m) ==
  \A i, j \in DOMAIN m : RepoKey(m[i]) = RepoKey(m[j]) => i = j

\* The run has classified nothing but Unchanged so far and holds no delta.
NothingToRegister(p) ==
  /\ locationsToRegister[p] = <<>>
  /\ pc[p] \notin {"upsert", "mark"}
  /\ \A i \in DOMAIN log[p] : log[p][i].kind = "unchanged"

\* C1 as stated: a run on the manifest the previous run completed on, with no
\* failure and no run in between, classifies every descriptor Unchanged and
\* ends with an empty delta, for any manifest.
C1_IdempotentAnyManifest ==
  \A p \in Passes : rerun[p] => NothingToRegister(p)

\* C1, amended: the same, for manifests that list no repoKey with two
\* different versions.
C1_Idempotent ==
  \A p \in Passes :
    rerun[p] /\ SingleVersioned(manifest[p]) => NothingToRegister(p)

\* A second run over two repositories has reached the end of its loop; the
\* rows it met were written by the run before it.
C1_Witness ==
  \E p \in Passes :
    /\ rerun[p]
    /\ pc[p] = "apply"
    /\ Len(manifest[p]) >= 2
    /\ DistinctKeys(manifest[p])
    /\ Len(log[p]) = Len(manifest[p])
    /\ \A r \in table : r.last_seen_at < now

\* The table t holds exactly this version for the descriptor's key.
Holds(t, d) ==
  \E r \in t : r.repo_key = RepoKey(d) /\ r.manifest_version = d.version

\* The descriptors of m at the positions in keep, in manifest order.
Picked(m, keep) ==
  LET f[i \in 0..Len(m)] ==
        IF i = 0 THEN <<>>
        ELSE IF i \in keep THEN Append(f[i - 1], m[i]) ELSE f[i - 1]
  IN  f[Len(m)]

\* Positions of the run's manifest that are New or Changed with respect to
\* the table the run started on.
NewOrChangedAtStart(p) ==
  {i \in DOMAIN manifest[p] : ~Holds(passTable[p], manifest[p][i])}

\* The delta is the New/Changed descriptors, one entry each, and the table
\* differs from the one the run started on in exactly their rows, which carry
\* the descriptor's version and this run's timestamps.
DeltaIsExactlyTheChanges(p) ==
  LET want == Picked(manifest[p], NewOrChangedAtStart(p))
      got == locationsToRegister[p]
  IN  /\ Len(got) = Cardinality(NewOrChangedAtStart(p))
      /\ Len(got) = Len(want)
      /\ \A j \in DOMAIN want :
           /\ got[j].repoKey = RepoKey(want[j])
           /\ got[j].manifestVersion = want[j].version
      /\ \A k \in RepoKeys :
           IF \E i \in NewOrChangedAtStart(p) : RepoKey(manifest[p][i]) = k
             THEN \E i \in NewOrChangedAtStart(p) :
                    /\ RepoKey(manifest[p][i]) = k
                    /\ RowsOf(table, k) = {Row(k, manifest[p][i].version, now, now)}
             ELSE RowsOf(table, k) = RowsOf(passTable[p], k)

\* C2 as stated: when the loop is over, the delta has exactly the K New/Changed
\* descriptors and the store was updated for exactly their keys, for any
\* manifest.
C2_DeltaMinimalAnyManifest ==
  \A p \in Passes : pc[p] = "apply" => DeltaIsExactlyTheChanges(p)

\* C2, amended: the same, for manifests that list every repoKey at most once.
C2_DeltaMinimal ==
  \A p \in Passes :
    pc[p] = "apply" /\ DistinctKeys(manifest[p]) => DeltaIsExactlyTheChanges(p)

\* The loop is over on two repositories with different keys, one New/Changed
\* (K = 1) and one Unchanged.
C2_Witness ==
  \E p \in Passes :
    /\ pc[p] = "apply"
    /\ Len(manifest[p]) = 2
    /\ DistinctKeys(manifest[p])
    /\ Cardinality(NewOrChangedAtStart(p)) = 1
    /\ Len(locationsToRegister[p]) = 1
    /\ passTable[p] # {}

\* C3: a descriptor is classified Unchanged exactly when the stored
\* manifestVersion is the same string as its version; a descriptor classified
\* Changed goes on to upsertSeen and markRegistered, and once both are done
\* its row carries this run's timestamps and its pointer is in the delta.
C3_ExactStringEquality ==
  \A p \in Passes : \A i \in DOMAIN log[p] :
    LET d == manifest[p][i]
        e == log[p][i]
        last == i = Len(log[p])
    IN  /\ last =>
              (e.kind = "unchanged" <=>
                 stored[p].found /\ stored[p].manifestVersion = d.version)
        /\ last /\ e.kind = "unchanged" => Holds(table, d)
        /\ last /\ e.kind = "changed" /\ pc[p] = "upsert" => ~Holds(table, d)
        /\ e.kind = "changed" =>
              \/ last /\ pc[p] \in {"upsert", "mark"}
              \/ /\ \E r \in RowsOf(table, RepoKey(d)) :
                      r.last_seen_at = now /\ r.last_registered_at = now
                 /\ <<RepoKey(d), d.version>> \in Pairs(locationsToRegister[p])

\* A "1.0.0" stored by an earlier run met the whitespace variant "1.0.0 ":
\* classified Changed, written and put in the delta.
C3_Witness ==
  \E p \in Passes : \E i \in DOMAIN log[p] :
    /\ pc[p] = "apply"
    /\ log[p][i].kind = "changed"
    /\ log[p][i].from = "1.0.0"
    /\ log[p][i].to = "1.0.0 "
    /\ \E r \in passTable[p] :
         r.repo_key = log[p][i].repoKey /\ r.manifest_version = "1.0.0"

\* The descriptor at position i was met with no row for its key: none when
\* the run started and none written by an earlier position.
MetWithoutRecord(p, i) ==
  /\ RowsOf(passTable[p], RepoKey(manifest[p][i])) = {}
  /\ \A j \in 1..(i - 1) : RepoKey(manifest[p][j]) # RepoKey(manifest[p][i])

\* processRepository has returned for position i.
Returned(p, i) == i < Len(log[p]) \/ pc[p] \notin {"upsert", "mark"}

\* Positions up to i that were classified New or Changed.
ChangedUpTo(p, i) == {j \in 1..i : log[p][j].kind = "changed"}

\* C4: a descriptor whose key has no row is classified New whatever its
\* version, and its processing puts exactly one pointer in the delta, carrying
\* its repoKey and its version.
C4_NewRepository ==
  \A p \in Passes :
    /\ Len(locationsToRegister[p]) =
         Cardinality({j \in DOMAIN log[p] :
                        log[p][j].kind = "changed" /\ Returned(p, j)})
    /\ \A i \in DOMAIN log[p] :
         MetWithoutRecord(p, i) =>
           /\ log[p][i].kind = "changed"
           /\ log[p][i].from = "new"
           /\ Returned(p, i) =>
                LET at == Cardinality(ChangedUpTo(p, i))
                    d == manifest[p][i]
                IN  /\ at \in DOMAIN locationsToRegister[p]
                    /\ locationsToRegister[p][at].repoKey =
                         d.workspace \o "/" \o d.repoSlug
                    /\ locationsToRegister[p][at].manifestVersion = d.version

\* Two repositories without rows, with different versions, went through a
\* whole loop.
C4_Witness ==
  \E p \in Passes :
    /\ pc[p] = "apply"
    /\ Len(manifest[p]) = 2
    /\ MetWithoutRecord(p, 1)
    /\ MetWithoutRecord(p, 2)
    /\ manifest[p][1].version # manifest[p][2].version
    /\ Len(locationsToRegister[p]) = 2

WrittenThisRun(p, i) ==
  \E j \in DOMAIN log[p] :
    /\ RepoKey(manifest[p][j]) = RepoKey(manifest[p][i])
    /\ log[p][j].kind = "changed"
    /\ (j < Len(log[p]) \/ pc[p] # "upsert")

C7_StoreErrorDoesNotAbort ==
  [][\A p \in Passes :
       pc[p] \in {"upsert", "mark"} => outcome'[p] # "storeError"]_vars

\* C8: no step removes a row, a row changes only while a run on a manifest
\* that lists its key is writing, and the sink is never asked to remove
\* anything.
C8_NoDeletions ==
  /\ [][\A k \in RepoKeys :
          /\ RowsOf(table, k) # {} => RowsOf(table', k) # {}
          /\ RowsOf(table', k) # RowsOf(table, k) =>
               \E p \in Passes :
                 /\ pc[p] \in {"upsert", "mark"}
                 /\ k \in KeysOf(manifest[p])]_vars
  /\ [](sink.removed = {})

\* A run completed on a manifest that no longer lists a key registered by an
\* earlier run; that key's row is still there, untouched.
C8_Witness ==
  \E p \in Passes :
    /\ pc[p] = "idle"
    /\ outcome[p] = "completed"
    /\ manifest[p] # <<>>
    /\ \E r \in table :
         /\ r.repo_key \notin KeysOf(manifest[p])
         /\ r.last_seen_at < now
         /\ r.last_registered_at # NULL
    /\ \E r \in table : r.last_seen_at = now
    /\ sink.added # {}

\* C9: a fetch that fails ends the run at once with the fetch error, with the
\* table and the sink as they were; no store call precedes the fetch.
C9_FetchFailureAborts ==
  /\ [][\A p \in Passes :
          pc[p] = "fetch" /\ response'[p] \notin {"none", "ok"} =>
            /\ pc'[p] = "idle"
            /\ outcome'[p] = "fetchError"
            /\ table' = table
            /\ sink' = sink]_vars
  /\ [](\A p \in Passes :
          pc[p] = "fetch" => table = passTable[p] /\ log[p] = <<>>)

\* A fetch met content without spec.repositories while the table had rows.
C9_Witness ==
  \E p \in Passes :
    /\ pc[p] = "idle"
    /\ response[p] = "badShape"
    /\ outcome[p] = "fetchError"
    /\ table # {}

\* C10: a <<repoKey, version>> whose sink call failed stays committed in the
\* table, registered, and as long as the table holds that version no run puts
\* it in a delta again.
C10_SinkFailureSticks ==
  \A u \in unpublished :
    /\ \E r \in table :
         /\ r.repo_key = u[1]
         /\ r.manifest_version = u[2]
         /\ r.last_registered_at # NULL
    /\ \A p \in Passes : u \notin Pairs(locationsToRegister[p])

\* After a failed sink call a later run met the same version again,
\* classified it Unchanged and finished its loop.
C10_Witness ==
  \E p \in Passes : \E i \in DOMAIN log[p] :
    /\ pc[p] = "apply"
    /\ <<RepoKey(manifest[p][i]), manifest[p][i].version>> \in unpublished
    /\ log[p][i].kind = "unchanged"

\* C11: in every reachable state the table holds at most one record per
\* repoKey, also when the upsertSeen calls of two overlapping runs for the same
\* key interleave; and each upsertSeen leaves the key with exactly one row
\* whose manifest_version and last_seen_at are both the ones of that call.
C11_OneRecordPerKey ==
  /\ [](\A k \in RepoKeys : Cardinality(RowsOf(table, k)) <= 1)
  /\ [][\A p \in Passes :
         pc[p] = "upsert" /\ pc'[p] = "mark" =>
           \E r \in table' :
             /\ RowsOf(table', RepoKey(Repo(p))) = {r}
             /\ r.manifest_version = Repo(p).version
             /\ r.last_seen_at = now]_vars

\* Two runs in flight have both upserted the same key, with different
\* versions, and the key has one row.
C11_Witness ==
  /\ pc[1] = "mark" /\ pc[2] = "mark"
  /\ RepoKey(Repo(1)) = RepoKey(Repo(2))
  /\ Repo(1).version # Repo(2).version
  /\ Cardinality(RowsOf(table, RepoKey(Repo(1)))) = 1

\* C12: whenever no run is in flight, every record whose last_registered_at
\* is present has last_registered_at >= last_seen_at; this covers the state
\* left by a run that failed or was abandoned between upsertSeen and
\* markRegistered.
C12_RegisteredNotBeforeSeen ==
  (\A p \in Passes : pc[p] = "idle") =>
    \A r \in table :
      r.last_registered_at # NULL => r.last_registered_at >= r.last_seen_at

\* C13: upsertSeen(k, v) creates, when k has no record, the record
\* {k, v, last_seen_at = now, last_registered_at absent}; when k has a record
\* it overwrites manifest_version and last_seen_at only and keeps
\* last_registered_at; the records of every other key stay as they are.
C13_UpsertSeenFrame ==
  [][\A p \in Passes :
       pc[p] = "upsert" /\ pc'[p] = "mark" =>
         LET k == RepoKey(Repo(p))
             v == Repo(p).version
         IN  /\ {r \in table' : r.repo_key # k} = {r \in table : r.repo_key # k}
             /\ IF \A r \in table : r.repo_key # k
                   THEN {r \in table' : r.repo_key = k} =
                          {[repo_key |-> k, manifest_version |-> v,
                            last_seen_at |-> now, last_registered_at |-> NULL]}
                   ELSE {r \in table' : r.repo_key = k} =
                          {[r EXCEPT !.manifest_version = v, !.last_seen_at = now] :
                             r \in {x \in table : x.repo_key = k}}]_vars

\* upsertSeen has just overwritten the version of a record that was
\* registered earlier, next to a record of another key.
C13_Witness ==
  \E p \in Passes :
    /\ pc[p] = "mark"
    /\ stored[p].found
    /\ stored[p].lastRegisteredAt # NULL
    /\ stored[p].manifestVersion # Repo(p).version
    /\ \E r \in table :
         /\ r.repo_key = RepoKey(Repo(p))
         /\ r.manifest_version = Repo(p).version
         /\ r.last_seen_at = now
         /\ r.last_seen_at > stored[p].lastSeenAt
         /\ r.last_registered_at = stored[p].lastRegisteredAt
    /\ \E r \in table : r.repo_key # RepoKey(Repo(p))

\* C14: within a pass markRegistered(k) comes only after upsertSeen(k, v)
\* succeeded for the same descriptor in the same pass, so it acts on an
\* existing record holding v; and markRegistered changes nothing but
\* last_registered_at of k's record and creates no record.
C14_MarkRegisteredAfterUpsertSeen ==
  /\ [](\A p \in Passes :
          pc[p] = "mark" =>
            \E r \in table :
              /\ r.repo_key = RepoKey(Repo(p))
              /\ r.manifest_version = Repo(p).version
              /\ r.last_seen_at = now
              /\ r \notin passTable[p])
  /\ [][\A p \in Passes :
         pc[p] = "mark" /\ pc'[p] \in {"get", "apply"} =>
           LET k == RepoKey(Repo(p))
           IN  /\ {r.repo_key : r \in table'} = {r.repo_key : r \in table}
               /\ {r \in table' : r.repo_key # k} = {r \in table : r.repo_key # k}
               /\ {r \in table' : r.repo_key = k} =
                    {[r EXCEPT !.last_registered_at = now] :
                       r \in {x \in table : x.repo_key = k}}]_vars

\* markRegistered has just stamped the record that upsertSeen created in this
\* pass, next to another key's record that it left alone.
C14_Witness ==
  \E p \in Passes :
    /\ pc[p] \in {"get", "apply"}
    /\ locationsToRegister[p] # <<>>
    /\ \E r \in table :
         /\ r.repo_key = locationsToRegister[p][Len(locationsToRegister[p])].repoKey
         /\ r.last_registered_at = now
         /\ r.last_seen_at = now
         /\ \A x \in passTable[p] : x.repo_key # r.repo_key
    /\ \E r \in table : r \in passTable[p] /\ r.last_registered_at # now

\* C15: when two overlapping runs on the same manifest have both finished
\* their loops, the table is what one pass leaves: each key of the manifest
\* has one record, holding the version the manifest lists last for it, and
\* the record is registered unless both runs found that version stored
\* already and wrote nothing, as one pass would have. Each run collected
\* pointers of the manifest only, so all that differs from one pass is a
\* pointer handed over twice.
C15_OverlapSameManifest ==
  (/\ pc[1] = "apply" /\ pc[2] = "apply"
   /\ manifest[1] = manifest[2]) =>
    /\ \A i \in DOMAIN manifest[1] :
         (\A j \in DOMAIN manifest[1] :
            j > i => RepoKey(manifest[1][j]) # RepoKey(manifest[1][i])) =>
           \E r \in table :
             /\ {x \in table : x.repo_key = RepoKey(manifest[1][i])} = {r}
             /\ r.manifest_version = manifest[1][i].version
             /\ \/ r.last_registered_at # NULL
                \/ \A p \in Passes : log[p][i].kind = "unchanged"
    /\ \A p \in Passes :
         Pairs(locationsToRegister[p]) \subseteq
           {<<RepoKey(manifest[p][i]), manifest[p][i].version>> : i \in DOMAIN manifest[p]}

\* Both runs found the version not stored, both wrote, and both are about to
\* hand over the same pointer.
C15_Witness ==
  /\ pc[1] = "apply" /\ pc[2] = "apply"
  /\ manifest[1] = manifest[2]
  /\ locationsToRegister[1] # <<>>
  /\ locationsToRegister[1] = locationsToRegister[2]
  /\ \E r \in table :
       /\ r.repo_key = locationsToRegister[1][1].repoKey
       /\ r.manifest_version = locationsToRegister[1][1].manifestVersion
       /\ r.last_registered_at # NULL

\* The version a pass running alone from table t holds for key k after the
\* first i entries of manifest m ("" when k has no record): that of the last
\* of these entries naming k, else the one t holds.
AloneVersion(t, m, k, i) ==
  LET js == {j \in 1..i : RepoKey(m[j]) = k}
  IN  IF js # {} THEN m[CHOOSE j \in js : \A l \in js : l <= j].version
      ELSE IF \E r \in t : r.repo_key = k
             THEN (CHOOSE r \in t : r.repo_key = k).manifest_version
             ELSE ""

\* The entries such a pass finds New or Changed.
AloneChanged(t, m) ==
  {i \in DOMAIN m : AloneVersion(t, m, RepoKey(m[i]), i - 1) # m[i].version}

\* C16: runs whose repoKey sets are disjoint do not conflict. Under every
\* interleaving, a run whose keys no other run wrote while it was in flight
\* ends its loop with the classification and the delta of a pass running
\* alone from the table it started on, and with its keys' records as that
\* pass leaves them (timestamps aside): untouched where nothing changed,
\* else one registered record holding the last listed version.
C16_DisjointKeysDoNotConflict ==
  \A p \in Passes :
    (pc[p] = "apply" /\ foreignWrites[p] \cap KeysOf(manifest[p]) = {}) =>
      LET m == manifest[p]
          changed == AloneChanged(passTable[p], m)
      IN  /\ \A i \in DOMAIN m : (log[p][i].kind = "changed") <=> (i \in changed)
          /\ Len(locationsToRegister[p]) = Cardinality(changed)
          /\ Pairs(locationsToRegister[p]) =
               {<<RepoKey(m[i]), m[i].version>> : i \in changed}
          /\ \A k \in KeysOf(m) :
               IF \A i \in changed : RepoKey(m[i]) # k
                 THEN {r \in table : r.repo_key = k} =
                        {r \in passTable[p] : r.repo_key = k}
                 ELSE \E r \in table :
                        /\ {x \in table : x.repo_key = k} = {r}
                        /\ r.manifest_version = AloneVersion(passTable[p], m, k, Len(m))
                        /\ r.last_registered_at # NULL

\* Two runs on manifests without a common key are both at the end of their
\* loops, each having written while the other was in flight.
C16_Witness ==
  /\ pc[1] = "apply" /\ pc[2] = "apply"
  /\ KeysOf(manifest[1]) \cap KeysOf(manifest[2]) = {}
  /\ \A p \in Passes :
       /\ locationsToRegister[p] # <<>>
       /\ foreignWrites[p] # {}
       /\ foreignWrites[p] \cap KeysOf(manifest[p]) = {}

\* C17: abandoning a run mid-sequence leaves the table (and the sink) as they
\* are, nothing is rolled back, and nothing changes them before the next run
\* starts; and every pass, so also the one that follows an abandoned run,
\* classifies each entry whose version the table does not hold yet as New or
\* Changed and collects its pointer.
C17_AbandonKeepsWrites ==
  /\ [][\A p \in Passes :
         /\ pc[p] # "idle" /\ pc'[p] = "idle" /\ outcome'[p] = "abandoned" =>
              table' = table /\ sink' = sink
         /\ pc[p] = "idle" /\ outcome[p] = "abandoned" =>
              table' = table /\ sink' = sink]_vars
  /\ [](\A p \in Passes :
          pc[p] = "apply" =>
            \A i \in AloneChanged(passTable[p], manifest[p]) :
              /\ log[p][i].kind = "changed"
              /\ <<RepoKey(manifest[p][i]), manifest[p][i].version>>
                   \in Pairs(locationsToRegister[p]))

\* The run after an abandoned one starts on what that run wrote at the
\* previous tick: one row seen and registered, one row seen only.
C17_Witness ==
  \E p \in Passes :
    /\ pc[p] = "fetch"
    /\ outcome[p] = "abandoned"
    /\ passTable[p] = table
    /\ \E r \in table :
         r.last_seen_at = now - 1 /\ r.last_registered_at = now - 1
    /\ \E r \in table :
         r.last_seen_at = now - 1 /\ r.last_registered_at = NULL

\* C18: a pass hands the sink either its complete delta or nothing. The sink
\* changes only in the step that ends a run after its loop went through the
\* whole manifest, it then takes every pointer the run collected (one per
\* entry logged as changed), and a run that ends in any other way leaves the
\* sink as it was.
C18_NoPartialDelta ==
  [][/\ sink' # sink =>
          \E p \in Passes :
            /\ pc[p] = "apply" /\ pc'[p] = "idle"
            /\ outcome'[p] = "completed"
            /\ Len(log[p]) = Len(manifest[p])
            /\ Len(locationsToRegister[p]) =
                 Cardinality({i \in DOMAIN log[p] : log[p][i].kind = "changed"})
            /\ sink'.added = sink.added \cup
                 {locationsToRegister[p][i] : i \in DOMAIN locationsToRegister[p]}
     /\ \A p \in Passes :
          pc[p] # "idle" /\ pc'[p] = "idle" /\ outcome'[p] # "completed" =>
            sink' = sink]_vars

\* A run failed on a store call after it had registered a row in this pass;
\* the sink holds no pointer for that row.
C18_Witness ==
  \E p \in Passes :
    /\ pc[p] = "idle"
    /\ outcome[p] = "storeError"
    /\ \E r \in table :
         /\ r.last_registered_at = now
         /\ \A l \in sink.added :
              ~(l.repoKey = r.repo_key /\ l.manifestVersion = r.manifest_version)

\* C19: with passes that do not overlap, a pointer for (k, v) goes to the
\* sink at most once for as long as k is not met with another version: a run
\* about to call the sink holds no pair handed over before and still
\* standing, and holds the same pair twice only with an entry of another
\* version for that key between the two.
C19_AtMostOncePerVersion ==
  \A p \in Passes :
    pc[p] = "apply" =>
      /\ \A u \in Pairs(locationsToRegister[p]) : u \notin handed
      /\ \A i, j \in DOMAIN log[p] :
           (/\ i < j
            /\ log[p][i].kind = "changed" /\ log[p][j].kind = "changed"
            /\ log[p][i].repoKey = log[p][j].repoKey
            /\ log[p][i].to = log[p][j].to) =>
             \E l \in (i + 1)..(j - 1) :
               /\ log[p][l].repoKey = log[p][i].repoKey
               /\ log[p][l].to # log[p][i].to

\* A later run met again, and skipped, a version whose pointer had been handed
\* to the sink by an earlier run.
C19_Witness ==
  \E p \in Passes :
    /\ pc[p] = "apply"
    /\ \E i \in DOMAIN manifest[p] :
         /\ <<RepoKey(manifest[p][i]), manifest[p][i].version>> \in handed
         /\ log[p][i].kind = "unchanged"
         /\ \E l \in sink.added :
              /\ l.repoKey = RepoKey(manifest[p][i])
              /\ l.manifestVersion = manifest[p][i].version
    /\ locationsToRegister[p] # <<>>

\* C20: schema initialization is idempotent. runMigrations on a database
\* that holds the table and its index already ends without error, leaves the
\* set of tables and indexes and the migration records as they are, and
\* leaves every row of bb_manifest_versions unchanged.
C20_SchemaInitIdempotent ==
  [][(/\ phase = "connected"
      /\ phase' \in {"migrated", "failed"}
      /\ SchemaObjects \subseteq schema) =>
       /\ phase' = "migrated"
       /\ schema' = schema
       /\ migrations' = migrations
       /\ table' = table]_vars

\* The migrations have run again, after a restart, on a database whose table
\* holds records.
C20_Witness ==
  /\ phase = "migrated"
  /\ schema = SchemaObjects
  /\ migrations = MigrationDirectory
  /\ table # {}
  /\ \E r \in table : r.last_registered_at # NULL

\* The entries of the run's manifest whose processRepository returned
\* shouldRegister: true.
Registered(p) ==
  {i \in DOMAIN log[p] : log[p][i].kind = "changed" /\ Returned(p, i)}

\* C21: within one pass the entries are processed one at a time in manifest
\* order. The loop position moves by one, and only when the entry's last store
\* call is done (get for an unchanged entry, markRegistered otherwise); every
\* store write is for the entry the loop is at, which is the last one
\* classified; the log follows the manifest entry by entry; and the delta
\* lists the pointers of the New/Changed entries in the manifest's order.
C21_SequentialInManifestOrder ==
  /\ [](\A p \in Passes :
          pc[p] \in {"get", "upsert", "mark", "apply"} =>
            /\ idx[p] \in 1..(Len(manifest[p]) + 1)
            /\ Len(log[p]) = IF pc[p] \in {"upsert", "mark"} THEN idx[p] ELSE idx[p] - 1
            /\ \A i \in DOMAIN log[p] :
                 /\ log[p][i].repoKey = RepoKey(manifest[p][i])
                 /\ log[p][i].to = manifest[p][i].version
            /\ LET want == Picked(manifest[p], Registered(p))
               IN  /\ Len(locationsToRegister[p]) = Len(want)
                   /\ \A j \in DOMAIN want :
                        /\ locationsToRegister[p][j].repoKey = RepoKey(want[j])
                        /\ locationsToRegister[p][j].manifestVersion = want[j].version)
  /\ [][\A p \in Passes :
         /\ (pc[p] \in {"get", "upsert", "mark"} /\ pc'[p] # "idle") =>
              /\ idx'[p] \in {idx[p], idx[p] + 1}
              /\ idx'[p] = idx[p] + 1 <=>
                   \/ pc[p] = "mark"
                   \/ pc[p] = "get" /\ log'[p][idx[p]].kind = "unchanged"
              /\ pc[p] = "get" /\ idx'[p] = idx[p] => pc'[p] = "upsert"
              /\ pc[p] = "upsert" => pc'[p] = "mark"
         /\ (pc[p] # "idle" /\ table' # table) =>
              /\ pc[p] \in {"upsert", "mark"}
              /\ idx[p] = Len(log[p])
              /\ {r \in table' : r.repo_key # RepoKey(manifest[p][idx[p]])} =
                   {r \in table : r.repo_key # RepoKey(manifest[p][idx[p]])}]_vars

\* A loop over w/s and then w/r, both New, is over: the delta holds the
\* pointer of w/s first and that of w/r second.
C21_Witness ==
  \E p \in Passes :
    /\ pc[p] = "apply"
    /\ Len(manifest[p]) = 2
    /\ manifest[p][1].repoSlug = "s" /\ manifest[p][2].repoSlug = "r"
    /\ Len(locationsToRegister[p]) = 2
    /\ locationsToRegister[p][1].repoKey = "w/s"
    /\ locationsToRegister[p][2].repoKey = "w/r"
    /\ \A r \in table : r.last_registered_at = now

\* C22: start-up goes connection, then schema initialization, then
\* scheduling, one after the other, and initialization that ends without error
\* leaves the table and its migration record in place. So a run is in flight
\* only on a scheduled provider whose database holds the schema, and rows
\* exist only in a database that holds the table. A run that starts on a
\* provider without a connection ends at once as not connected: it fetches
\* nothing and leaves the table and the sink alone.
C22_StartupOrdering ==
  /\ [][phase' # phase =>
          \/ phase = "constructed" /\ phase' = "connected"
          \/ /\ phase = "connected" /\ phase' = "migrated"
             /\ SchemaObjects \subseteq schema'
             /\ MigrationDirectory \subseteq migrations'
          \/ phase = "connected" /\ phase' = "failed"
          \/ phase = "migrated" /\ phase' = "scheduled"
          \/ phase' = "constructed"]_vars
  /\ [](\A p \in Passes :
          pc[p] # "idle" =>
            /\ phase = "scheduled"
            /\ SchemaObjects \subseteq schema
            /\ MigrationDirectory \subseteq migrations)
  /\ [](table # {} => "bb_manifest_versions" \in schema)
  /\ [][\A p \in Passes :
          (pc[p] = "idle" /\ phase = "constructed" /\ now' # now
             /\ outcome'[p] # outcome[p]) =>
            /\ pc'[p] = "idle"
            /\ outcome'[p] = "notConnected"
            /\ response'[p] = "none"
            /\ manifest'[p] = manifest[p]
            /\ table' = table
            /\ sink' = sink]_vars
  /\ [][(phase = "constructed" /\ now' # now) =>
          /\ \A p \in Passes : pc'[p] = "idle"
          /\ \E p \in Passes : outcome'[p] = "notConnected"]_vars

\* A run on the unconnected provider ended as not connected with the database
\* still empty; the provider then went through connect, and its first
\* scheduled run has started on the initialized schema.
C22_Witness ==
  \E p \in Passes :
    /\ outcome[p] = "notConnected"
    /\ pc[p] = "fetch"
    /\ phase = "scheduled"
    /\ schema = SchemaObjects
    /\ migrations = MigrationDirectory
    /\ table = {}
    /\ now = 2

\* C23: when a run that no other run overlapped completes without error, every
\* repoKey of its manifest has a record that holds the version of the key's
\* last entry in manifest order and whose last_registered_at is present, and
\* the records of the keys the manifest does not list are the ones the run
\* started on.
C23_CompletePassPostCondition ==
  [][\A p \in Passes :
       (pc[p] = "apply" /\ pc'[p] = "idle" /\ outcome'[p] = "completed") =>
         /\ \A k \in KeysOf(manifest[p]) :
              \E r \in table' :
                /\ r.repo_key = k
                /\ r.manifest_version =
                     AloneVersion(passTable[p], manifest[p], k, Len(manifest[p]))
                /\ r.last_registered_at # NULL
         /\ \A k \in RepoKeys \ KeysOf(manifest[p]) :
              RowsOf(table', k) = RowsOf(passTable[p], k)]_vars

\* C24: no lost registration. With no sink call having failed, whenever no
\* run is in flight (the last one completed, failed on a store error or was
\* abandoned) and the table records version v with last_registered_at present
\* for repoKey k, a pointer for (k, v) has been handed to the sink.
C24_NoLostRegistration ==
  ((\A p \in Passes : pc[p] = "idle") /\ unpublished = {}) =>
    \A r \in table :
      r.last_registered_at # NULL =>
        \E l \in sink.added :
          l.repoKey = r.repo_key /\ l.manifestVersion = r.manifest_version

\* C25: the location built for an entry identifies its repository: entries
\* with different (workspace, repoSlug) pairs get locations with different
\* names and different repo-key annotations.
C25_PointerIdentityInjective ==
  \A p \in Passes : \A i, j \in DOMAIN locationsToRegister[p] :
    <<manifest[p][i].workspace, manifest[p][i].repoSlug>> #
      <<manifest[p][j].workspace, manifest[p][j].repoSlug>> =>
      /\ locationsToRegister[p][i].name # locationsToRegister[p][j].name
      /\ locationsToRegister[p][i].repoKey # locationsToRegister[p][j].repoKey

====
